---- MODULE Spec2Model ----
(***************************************************************************)
(* Model of the DAG fd_jenkins_ec2_training_dag                            *)
(* (dags/fd-pipeline-ml-training.py): one DAG run, its seven task          *)
(* instances as the scheduler drives them (trigger rules, retries), the    *)
(* bodies of the tasks, and the services they call (Jenkins, EC2, SSH,     *)
(* S3) as nondeterministic responders.                                     *)
(***************************************************************************)
EXTENDS Integers, Sequences, FiniteSets, TLC

(* ---------------------------------------------------------------------- *)
(* Bounds of the model                                                     *)
(* ---------------------------------------------------------------------- *)

\* The polling loops are unbounded in the code.  The model records the
\* responses of the current call in a window of the MaxPolls most recent
\* ones, and counts requests up to MaxPolls (saturating), so a loop can
\* still run forever.
MaxPolls == 2

\* At most MaxFiles files lie under the log folder.
MaxFiles == 3

\* The CI job starts builds up to number MaxBuilds.
MaxBuilds == 2

\* cv_results.csv holds up to MaxRows records.
MaxRows == 3

(* ---------------------------------------------------------------------- *)
(* The DAG: tasks, dependency edges, trigger rules, retries                *)
(* ---------------------------------------------------------------------- *)

\* default_args['retries']
Retries == 1

\* The tasks in the order of the chain of line 331.
TaskOrder ==
    << "jenkins_poll", "create_ec2_instance", "check_ec2_instance",
       "ec2_public_ip", "ssh_training_task", "terminate_instance",
       "write_logs_task" >>

Tasks == { TaskOrder[i] : i \in 1..Len(TaskOrder) }

\* Variant: the chain of line 331 left out, only the XComArg edges remain.
UpstreamDataOnly(t) ==
    CASE t = "check_ec2_instance" -> {"create_ec2_instance"}
      [] t = "ec2_public_ip"      -> {"create_ec2_instance"}
      [] t = "ssh_training_task"  -> {"ec2_public_ip"}
      [] OTHER                    -> {}

\* Direct upstream tasks: the >> chain of line 331 together with the edges
\* the XComArg arguments add (lines 324-326).
Upstream(t) ==
    CASE t = "jenkins_poll"        -> {}
      [] t = "create_ec2_instance" -> {"jenkins_poll"}
      [] t = "check_ec2_instance"  -> {"create_ec2_instance"}
      [] t = "ec2_public_ip"       -> {"create_ec2_instance", "check_ec2_instance"}
      [] t = "ssh_training_task"   -> {"ec2_public_ip"}
      [] t = "terminate_instance"  -> {"ssh_training_task"}
      [] t = "write_logs_task"     -> {"terminate_instance"}

\* Variant: terminate_instance left with the default trigger rule.
TriggerRuleOfAllSuccess(t) == "all_success"

\* Variant: every task given the rule of terminate_instance.
TriggerRuleOfAllDone(t) == "all_done"

\* Variant: write_logs_task given the rule of terminate_instance too.
TriggerRuleOfLogsAllDone(t) ==
    IF t \in {"terminate_instance", "write_logs_task"} THEN "all_done" ELSE "all_success"

\* trigger_rule of each task: only terminate_instance overrides the default.
TriggerRuleOf(t) ==
    IF t = "terminate_instance" THEN "all_done" ELSE "all_success"

\* Task-instance states the scheduler uses.
Finished == {"success", "failed", "upstream_failed"}
TIStates == {"none", "running", "up_for_retry"} \cup Finished

(* ---------------------------------------------------------------------- *)
(* Responses of the external services                                      *)
(* ---------------------------------------------------------------------- *)

\* GET {JENKINS_URL}/job/{name}/{build}/api/json: status code, and for a
\* 200 the fields 'building' and 'result' of the body.
Non200 == [code |-> 503, building |-> FALSE, result |-> "NONE"]
BuildResponses ==
    [code : {200}, building : BOOLEAN, result : {"NONE", "SUCCESS", "FAILURE"}]
        \cup {Non200}

\* describe_instance_status: 'InstanceStatuses' is an empty list, or holds
\* one entry with SystemStatus.Status and InstanceStatus.Status.
StatusValues == {"ok", "initializing"}
StatusEntries == [SystemStatus : StatusValues, InstanceStatus : StatusValues]
StatusResponses == {<< >>} \cup { <<e>> : e \in StatusEntries }

\* The reporting DAG fd_training_data_reporting: its tasks, its retries and
\* the dependency download_task >> reporting_task.
ReportTasks == {"download_data_from_s3", "generate_and_upload_report"}
ReportRetries == 1
ReportUpstream(t) ==
    IF t = "generate_and_upload_report" THEN {"download_data_from_s3"} ELSE {}

\* Status codes the reporting service answers with.
ReportCodes == {200, 201, 400, 401, 404, 500}

\* Instance identifiers the provider hands out, in order.
InstanceIdPool == << "i-1", "i-2", "i-3", "i-4" >>
NewInstanceId(n) == InstanceIdPool[n + 1]

VARIABLES
    state,          \* task id -> task-instance state
    tries,          \* task id -> number of tries started (try_number)
    xcom,           \* return values pushed, task id -> value
    jenkinsPc,      \* poll_jenkins_job: position / outcome of the current call
    jenkinsLatest,  \* poll_jenkins_job: status code of the latest-build response, 0: none yet
    jenkinsReqs,    \* poll_jenkins_job: build-status requests of the current call
    jenkinsResps,   \* poll_jenkins_job: build-status responses of the current call
    jenkinsReturns, \* poll_jenkins_job: number of returns of True in this run
    checkPc,        \* check_ec2_status: position / outcome of the current call
    passed_checks,  \* check_ec2_status: the local of that name
    checkReqs,      \* check_ec2_status: describe_instance_status calls of the call
    checkResps,     \* check_ec2_status: responses of the current call
    checkTarget,    \* check_ec2_status: InstanceIds argument of the polls
    launched,       \* EC2: instance ids created by run_instances
    terminated,     \* EC2: instance ids terminated
    terminateCalls, \* EC2: instance ids of the terminate_instances calls, in order
    remoteCmds,     \* SSH: number of exec_command calls that ran the command
    uploads,        \* S3: number of load_file_obj calls that stored an object
    lastBuild,      \* Jenkins: number of the job's last build
    latest_build_number, \* poll_jenkins_job: the local of that name, 0: not set
    buildTargets,   \* poll_jenkins_job: build numbers the status requests of the call named
    ipTarget,       \* get_ec2_public_ip: instance id of the last call, "": none yet
    sshLog,         \* run_training_via_paramiko: SSH client events of the current call
    exitStatus,     \* SSH: exit status of the remote command of the current call, -1: none
    logFolder,      \* write_logs_s3: the files under base_log_folder, in os.walk order
    s3Objects,      \* S3: contents of the objects stored by load_file_obj, in order
    uploadAttempts, \* S3: number of load_file_obj calls
    rstate,         \* reporting DAG: task id -> task-instance state
    rtries,         \* reporting DAG: task id -> number of tries started
    localFile,      \* reporting DAG: records of the file at LOCAL_FILE_PATH, -1: no file
    posted,         \* reporting DAG: records of each POST the service answered, in order
    status_code,    \* generate_and_upload_report: response.status_code of the call, 0: none
    printed         \* generate_and_upload_report: the message the call printed last

vars ==
    << state, tries, xcom, jenkinsPc, jenkinsLatest, jenkinsReqs, jenkinsResps, jenkinsReturns,
       checkPc, passed_checks, checkReqs, checkResps, checkTarget,
       launched, terminated, terminateCalls, remoteCmds, uploads,
       lastBuild, latest_build_number, buildTargets, ipTarget, sshLog, exitStatus,
       logFolder, s3Objects, uploadAttempts,
       rstate, rtries, localFile, posted, status_code, printed >>

jenkinsVars == << jenkinsPc, jenkinsLatest, jenkinsReqs, jenkinsResps, jenkinsReturns >>
checkVars == << checkPc, passed_checks, checkReqs, checkResps, checkTarget >>
ec2Vars == << launched, terminated, terminateCalls >>
buildVars == << lastBuild, latest_build_number, buildTargets >>
sshVars == << sshLog, exitStatus >>
logVars == << logFolder, s3Objects, uploadAttempts >>
reportVars == << rstate, rtries, localFile, posted, status_code, printed >>

(* ---------------------------------------------------------------------- *)
(* Helpers                                                                 *)
(* ---------------------------------------------------------------------- *)

\* The window of the MaxPolls most recent responses.
Record(resps, r) ==
    IF Len(resps) < MaxPolls THEN Append(resps, r) ELSE Append(Tail(resps), r)

\* Request counter, saturating at MaxPolls.
Count(n) == IF n < MaxPolls THEN n + 1 ELSE n

\* A try that ends without an exception.
MarkSuccess(t) == state' = [state EXCEPT ![t] = "success"]

\* Variant: a failed try is always retried.
MarkFailureAlwaysRetry(t) == state' = [state EXCEPT ![t] = "up_for_retry"]

\* A try that raises: retried while try_number <= retries, failed after.
MarkFailure(t) ==
    state' = [state EXCEPT ![t] =
                 IF tries[t] <= Retries THEN "up_for_retry" ELSE "failed"]

\* xcom_pull(task_ids=t, key='return_value'): the value, or None.
XComPushed(t) == t \in DOMAIN xcom
XComPush(t, v) == xcom' = [u \in DOMAIN xcom \cup {t} |-> IF u = t THEN v ELSE xcom[u]]

\* The DAG run before the scheduler has looked at it.
InitRun ==
    /\ state = [t \in Tasks |-> "none"]
    /\ tries = [t \in Tasks |-> 0]
    /\ xcom = [t \in {} |-> << >>]
    /\ jenkinsPc = "idle"
    /\ jenkinsLatest = 0
    /\ jenkinsReqs = 0
    /\ jenkinsResps = << >>
    /\ jenkinsReturns = 0
    /\ checkPc = "idle"
    /\ passed_checks = FALSE
    /\ checkReqs = 0
    /\ checkResps = << >>
    /\ checkTarget = << >>
    /\ launched = {}
    /\ terminated = {}
    /\ terminateCalls = << >>
    /\ remoteCmds = 0
    /\ uploads = 0
    /\ lastBuild = 1
    /\ latest_build_number = 0
    /\ buildTargets = {}
    /\ ipTarget = ""
    /\ sshLog = << >>
    /\ exitStatus = -1
    /\ s3Objects = << >>
    /\ uploadAttempts = 0
    /\ rstate = [t \in ReportTasks |-> "none"]
    /\ rtries = [t \in ReportTasks |-> 0]
    /\ localFile = -1
    /\ posted = << >>
    /\ status_code = 0
    /\ printed = "none"

(* ---------------------------------------------------------------------- *)
(* Scheduler                                                               *)
(* ---------------------------------------------------------------------- *)

\* The trigger rule of t lets it run.
TriggerRuleMet(t) ==
    IF TriggerRuleOf(t) = "all_done"
    THEN \A u \in Upstream(t) : state[u] \in Finished
    ELSE \A u \in Upstream(t) : state[u] = "success"

\* all_success: an upstream task failed or was itself upstream_failed.
TriggerRuleFailed(t) ==
    /\ TriggerRuleOf(t) = "all_success"
    /\ \E u \in Upstream(t) : state[u] \in {"failed", "upstream_failed"}

\* The scheduler starts a try of t (the first one, or the retry).
StartTask(t) ==
    /\ state[t] \in {"none", "up_for_retry"}
    /\ TriggerRuleMet(t)
    /\ state' = [state EXCEPT ![t] = "running"]
    /\ tries' = [tries EXCEPT ![t] = @ + 1]
    /\ IF t = "jenkins_poll"
       THEN /\ jenkinsPc' = "get_latest"
            /\ jenkinsLatest' = 0
            /\ jenkinsReqs' = 0
            /\ jenkinsResps' = << >>
            /\ latest_build_number' = 0
            /\ buildTargets' = {}
            /\ UNCHANGED jenkinsReturns
       ELSE UNCHANGED << jenkinsVars, latest_build_number, buildTargets >>
    /\ IF t = "check_ec2_instance"
       THEN /\ checkPc' = "poll"
            /\ passed_checks' = FALSE
            /\ checkReqs' = 0
            /\ checkResps' = << >>
            /\ checkTarget' = xcom["create_ec2_instance"]
       ELSE UNCHANGED checkVars
    /\ IF t = "ssh_training_task"
       THEN /\ sshLog' = << >>
            /\ exitStatus' = -1
       ELSE UNCHANGED sshVars
    /\ UNCHANGED << xcom, ec2Vars, remoteCmds, uploads, lastBuild, ipTarget, logVars, reportVars >>

\* The scheduler gives up on a task whose trigger rule can no longer be met.
MarkUpstreamFailed(t) ==
    /\ state[t] = "none"
    /\ TriggerRuleFailed(t)
    /\ state' = [state EXCEPT ![t] = "upstream_failed"]
    /\ UNCHANGED << tries, xcom, jenkinsVars, checkVars, ec2Vars, remoteCmds, uploads >>
    /\ UNCHANGED << buildVars, ipTarget, sshVars, logVars, reportVars >>

(* ---------------------------------------------------------------------- *)
(* poll_jenkins_job (lines 72-103)                                         *)
(* ---------------------------------------------------------------------- *)

\* Variant: the result is read without looking at 'building'.
PollStepIgnoresBuilding(r) ==
    IF r.code = 200
    THEN IF r.result = "SUCCESS" THEN "return_true"
         ELSE IF ~r.building THEN "raise_build_failed" ELSE "sleep"
    ELSE "raise_transport"

\* Variant: a finished build counts as successful whatever its result.
PollStepIgnoresResult(r) ==
    IF r.code = 200
    THEN IF ~r.building THEN "return_true" ELSE "sleep"
    ELSE "raise_transport"

\* Variant: a non-200 response is polled again instead of raising.
PollStepRetriesTransport(r) ==
    IF r.code = 200
    THEN IF ~r.building
         THEN IF r.result = "SUCCESS" THEN "return_true" ELSE "raise_build_failed"
         ELSE "sleep"
    ELSE "sleep"

\* What one pass of the loop body does with the response r (lines 92-103).
PollStep(r) ==
    IF r.code = 200
    THEN IF ~r.building
         THEN IF r.result = "SUCCESS" THEN "return_true" ELSE "raise_build_failed"
         ELSE "sleep"
    ELSE "raise_transport"

\* Lines 81-85: what the call does with the status code of the first response.
LatestBuildStep(code) ==
    IF code # 200 THEN "raise_transport" ELSE "poll_build"

\* Lines 79-85: the request for the job's latest build number.
GetLatestBuild(code) ==
    /\ state["jenkins_poll"] = "running"
    /\ jenkinsPc = "get_latest"
    /\ jenkinsLatest' = code
    /\ jenkinsPc' = LatestBuildStep(code)
    /\ IF jenkinsPc' = "raise_transport"
       THEN MarkFailure("jenkins_poll")
       ELSE UNCHANGED state
    /\ latest_build_number' = IF jenkinsPc' = "poll_build" THEN lastBuild ELSE 0
    /\ UNCHANGED << tries, xcom, jenkinsReqs, jenkinsResps, jenkinsReturns,
                    checkVars, ec2Vars, remoteCmds, uploads >>
    /\ UNCHANGED << lastBuild, buildTargets, ipTarget, sshVars, logVars, reportVars >>

\* Variant: the status URL names whatever build is the last one now.
BuildUrlTargetLastBuild == lastBuild

\* Line 88: the build the status URL names, fixed before the loop.
BuildUrlTarget == latest_build_number

\* Lines 90-103: one pass of the while True loop, the service answering r.
PollBuild(r) ==
    /\ state["jenkins_poll"] = "running"
    /\ jenkinsPc = "poll_build"
    /\ jenkinsReqs' = Count(jenkinsReqs)
    /\ jenkinsResps' = Record(jenkinsResps, r)
    /\ LET step == PollStep(r) IN
       /\ jenkinsPc' = IF step = "sleep" THEN "poll_build" ELSE step
       /\ CASE step = "return_true" ->
                 /\ MarkSuccess("jenkins_poll")
                 /\ XComPush("jenkins_poll", TRUE)
                 /\ jenkinsReturns' = jenkinsReturns + 1
            [] step = "sleep" ->
                 UNCHANGED << state, xcom, jenkinsReturns >>
            [] OTHER ->
                 /\ MarkFailure("jenkins_poll")
                 /\ UNCHANGED << xcom, jenkinsReturns >>
    /\ buildTargets' = buildTargets \cup {BuildUrlTarget}
    /\ UNCHANGED << tries, jenkinsLatest, checkVars, ec2Vars, remoteCmds, uploads >>
    /\ UNCHANGED << lastBuild, latest_build_number, ipTarget, sshVars, logVars, reportVars >>

\* The CI job starts a new build while the DAG run is going on.
NewBuildStarts ==
    /\ lastBuild < MaxBuilds
    /\ lastBuild' = lastBuild + 1
    /\ UNCHANGED << state, tries, xcom, jenkinsVars, checkVars, ec2Vars, remoteCmds,
                    uploads, latest_build_number, buildTargets, ipTarget, sshVars,
                    logVars, reportVars >>

(* ---------------------------------------------------------------------- *)
(* create_ec2_instance (lines 106-123)                                     *)
(* ---------------------------------------------------------------------- *)

\* One try of EC2CreateInstanceOperator with min_count = max_count = 1 and
\* wait_for_completion = True.  The provider rejects run_instances
\* ("rejected"), or creates the instance and the wait for 'running' fails
\* ("wait_failed"), or the instance runs and its id list is returned.
CreateOutcomes == {"rejected", "wait_failed", "running"}

CreateInstance(outcome) ==
    /\ state["create_ec2_instance"] = "running"
    /\ LET id == NewInstanceId(Cardinality(launched)) IN
       /\ launched' = IF outcome = "rejected" THEN launched ELSE launched \cup {id}
       /\ IF outcome = "running"
          THEN /\ XComPush("create_ec2_instance", <<id>>)
               /\ MarkSuccess("create_ec2_instance")
          ELSE /\ UNCHANGED xcom
               /\ MarkFailure("create_ec2_instance")
    /\ UNCHANGED << tries, jenkinsVars, checkVars, terminated, terminateCalls,
                    remoteCmds, uploads >>
    /\ UNCHANGED << buildVars, ipTarget, sshVars, logVars, reportVars >>

(* ---------------------------------------------------------------------- *)
(* check_ec2_status (lines 126-164)                                        *)
(* ---------------------------------------------------------------------- *)

\* Variant: one of the two sub-checks being 'ok' is taken as enough.
ChecksPassedEither(response, passed) ==
    IF response # << >>
    THEN IF \/ response[1].SystemStatus = "ok"
            \/ response[1].InstanceStatus = "ok"
         THEN TRUE
         ELSE passed
    ELSE passed

\* Lines 143-159: the value of passed_checks after the response is examined.
ChecksPassed(response, passed) ==
    IF response # << >>
    THEN IF /\ response[1].SystemStatus = "ok"
            /\ response[1].InstanceStatus = "ok"
         THEN TRUE
         ELSE passed
    ELSE passed

\* Lines 138-164: one pass of the loop, the provider answering `response`;
\* the pass that sets passed_checks leaves the loop and returns True.
PollStatus(response) ==
    /\ state["check_ec2_instance"] = "running"
    /\ checkPc = "poll"
    /\ checkReqs' = Count(checkReqs)
    /\ checkResps' = Record(checkResps, response)
    /\ passed_checks' = ChecksPassed(response, passed_checks)
    /\ IF passed_checks'
       THEN /\ checkPc' = "return_true"
            /\ MarkSuccess("check_ec2_instance")
            /\ XComPush("check_ec2_instance", TRUE)
       ELSE /\ checkPc' = "poll"
            /\ UNCHANGED << state, xcom >>
    /\ UNCHANGED << tries, jenkinsVars, checkTarget, ec2Vars, remoteCmds, uploads >>
    /\ UNCHANGED << buildVars, ipTarget, sshVars, logVars, reportVars >>

\* Line 140: describe_instance_status raises (a client or network error).
PollStatusRaises ==
    /\ state["check_ec2_instance"] = "running"
    /\ checkPc = "poll"
    /\ checkReqs' = Count(checkReqs)
    /\ checkPc' = "raise"
    /\ MarkFailure("check_ec2_instance")
    /\ UNCHANGED << tries, xcom, jenkinsVars, passed_checks, checkResps,
                    checkTarget, ec2Vars, remoteCmds, uploads >>
    /\ UNCHANGED << buildVars, ipTarget, sshVars, logVars, reportVars >>

(* ---------------------------------------------------------------------- *)
(* get_ec2_public_ip (lines 167-192)                                       *)
(* ---------------------------------------------------------------------- *)

\* The public address of an instance.
PublicIpOf(id) == [public_ip_of |-> id]

\* One try: ec2.Instance(instance_id[0]), wait_until_running, reload; it
\* returns the address, or a provider call raises.
GetPublicIp(ok) ==
    /\ state["ec2_public_ip"] = "running"
    /\ ipTarget' = xcom["create_ec2_instance"][1]
    /\ IF ok
       THEN /\ XComPush("ec2_public_ip", PublicIpOf(xcom["create_ec2_instance"][1]))
            /\ MarkSuccess("ec2_public_ip")
       ELSE /\ UNCHANGED xcom
            /\ MarkFailure("ec2_public_ip")
    /\ UNCHANGED << tries, jenkinsVars, checkVars, ec2Vars, remoteCmds, uploads >>
    /\ UNCHANGED << buildVars, sshVars, logVars, reportVars >>

(* ---------------------------------------------------------------------- *)
(* run_training_via_paramiko (lines 196-239)                               *)
(* ---------------------------------------------------------------------- *)

\* A call ends in one of these ways: loading the private key raises (line
\* 206, before the try); connect raises (no route, authentication); the
\* session is up and exec_command raises; the command was started and
\* reading its output raises; or the output is read to its end, the remote
\* command having exited with status zero or not.
TrainingOutcomes ==
    {"key_error", "connect_error", "exec_error", "stream_error",
     "exit_zero", "exit_nonzero"}

\* Variant: close() called at the end of the try block, not in a finally.
TrainingEventsNoFinally(outcome) ==
    CASE outcome = "key_error"     -> << >>
      [] outcome = "connect_error" -> << "connect_failed" >>
      [] outcome = "exec_error"    -> << "connect", "exec_failed" >>
      [] outcome = "stream_error"  -> << "connect", "exec_command", "read_failed" >>
      [] OTHER                     -> << "connect", "exec_command", "read_output", "close" >>

\* Lines 202-239: what the call does to the SSH client, in order; the
\* finally clause closes the client on every path through the try block.
TrainingEvents(outcome) ==
    CASE outcome = "key_error"     -> << >>
      [] outcome = "connect_error" -> << "connect_failed", "close" >>
      [] outcome = "exec_error"    -> << "connect", "exec_failed", "close" >>
      [] outcome = "stream_error"  -> << "connect", "exec_command", "read_failed", "close" >>
      [] OTHER                     -> << "connect", "exec_command", "read_output", "close" >>

\* Lines 234-236: the call raises when a statement of it raised; the exit
\* status of the remote command is not read.
TrainingRaises(outcome) ==
    outcome \in {"key_error", "connect_error", "exec_error", "stream_error"}

\* One try of the task.
RunTraining(outcome) ==
    /\ state["ssh_training_task"] = "running"
    /\ sshLog' = TrainingEvents(outcome)
    /\ exitStatus' = CASE outcome = "exit_zero"    -> 0
                       [] outcome = "exit_nonzero" -> 1
                       [] OTHER                    -> -1
    /\ remoteCmds' = IF \E i \in 1..Len(sshLog') : sshLog'[i] = "exec_command"
                     THEN remoteCmds + 1 ELSE remoteCmds
    /\ IF TrainingRaises(outcome)
       THEN MarkFailure("ssh_training_task")
       ELSE MarkSuccess("ssh_training_task")
    /\ UNCHANGED << tries, xcom, jenkinsVars, checkVars, ec2Vars, uploads >>
    /\ UNCHANGED << buildVars, ipTarget, logVars, reportVars >>

(* ---------------------------------------------------------------------- *)
(* terminate_instance (lines 243-248)                                      *)
(* ---------------------------------------------------------------------- *)

\* Variant: a template environment that prints undefined values as ''.
TemplateRendersPermissive == TRUE

\* instance_ids is the template
\*   {{ task_instance.xcom_pull(task_ids='create_ec2_instance',
\*                              key='return_value')[0] }}
\* xcom_pull gives None when create_ec2_instance pushed nothing; None[0] is
\* an undefined value, which the DAG's template environment (undefined =
\* StrictUndefined, the DAG default) refuses to render.
TemplateRenders == XComPushed("create_ec2_instance")

\* Variant: the id of the first instance launched in the run, not the one
\* create_ec2_instance returned.
RenderedInstanceIdFirstLaunched ==
    IF XComPushed("create_ec2_instance") THEN NewInstanceId(0) ELSE ""

\* The rendered field; an undefined value would print as the empty string.
RenderedInstanceId ==
    IF XComPushed("create_ec2_instance") THEN xcom["create_ec2_instance"][1] ELSE ""

\* A try whose template does not render fails before execute() is called.
TerminateRenderFails ==
    /\ state["terminate_instance"] = "running"
    /\ ~TemplateRenders
    /\ MarkFailure("terminate_instance")
    /\ UNCHANGED << tries, xcom, jenkinsVars, checkVars, ec2Vars, remoteCmds, uploads >>
    /\ UNCHANGED << buildVars, ipTarget, sshVars, logVars, reportVars >>

\* One try of EC2TerminateInstanceOperator with wait_for_completion = True:
\* terminate_instances is called for the rendered id; the provider rejects
\* it, or accepts it and the wait for 'terminated' fails, or the instance
\* is terminated.
TerminateOutcomes == {"rejected", "wait_failed", "terminated"}

TerminateInstance(outcome) ==
    /\ state["terminate_instance"] = "running"
    /\ TemplateRenders
    /\ LET id == RenderedInstanceId IN
       /\ terminateCalls' = Append(terminateCalls, id)
       /\ terminated' = IF outcome # "rejected" /\ id \in launched
                        THEN terminated \cup {id} ELSE terminated
    /\ IF outcome = "terminated"
       THEN MarkSuccess("terminate_instance")
       ELSE MarkFailure("terminate_instance")
    /\ UNCHANGED << tries, xcom, jenkinsVars, checkVars, launched, remoteCmds, uploads >>
    /\ UNCHANGED << buildVars, ipTarget, sshVars, logVars, reportVars >>

(* ---------------------------------------------------------------------- *)
(* write_logs_s3 (lines 253-318)                                           *)
(* ---------------------------------------------------------------------- *)

\* A file under base_log_folder: its name, the date of its modification
\* time (UTC) against today's, and whether it can be read: "stat_error" when
\* getmtime raises, "read_error" when open() or read() raises.
LogFiles ==
    [name : 1..MaxFiles, mtime : {"today", "yesterday"},
     status : {"ok", "stat_error", "read_error"}]

\* The folders: up to MaxFiles files of different names, in os.walk order.
LogFolders ==
    { folder \in UNION { [1..n -> LogFiles] : n \in 0..MaxFiles } :
        \A i, j \in 1..Len(folder) : folder[i].name = folder[j].name => i = j }

\* What is written to log_content: the header line of a file (line 284), the
\* text of a file (line 286; file n holds n - 1 lines, file 1 is empty) and
\* the blank lines after it (line 287).
HeaderOf(name) == << [kind |-> "header", file |-> name, no |-> 0] >>
ContentOf(name) == [i \in 1..(name - 1) |-> [kind |-> "line", file |-> name, no |-> i]]
BlankLines == << [kind |-> "blank", file |-> 0, no |-> 0] >>

\* Variant: the modification date is not compared with today's.
AppendFileAnyDate(buf, f) ==
    IF f.status = "stat_error" THEN buf
    ELSE IF f.status = "read_error" THEN buf \o HeaderOf(f.name)
    ELSE buf \o HeaderOf(f.name) \o ContentOf(f.name) \o BlankLines

\* Lines 278-289, one pass of the inner loop: log_content after the file f.
\* The header is written before the file is opened, so a file whose open()
\* or read() raises leaves its header behind.
AppendFile(buf, f) ==
    IF f.status = "stat_error" THEN buf
    ELSE IF f.mtime # "today" THEN buf
    ELSE IF f.status = "read_error" THEN buf \o HeaderOf(f.name)
    ELSE buf \o HeaderOf(f.name) \o ContentOf(f.name) \o BlankLines

\* Variant: no try/except around the handling of one file.
ScanRaisesOnBadFile(folder) ==
    \E i \in 1..Len(folder) :
        \/ folder[i].status = "stat_error"
        \/ folder[i].status = "read_error" /\ folder[i].mtime = "today"

\* Lines 281-289: an exception raised while a file is handled is caught and
\* logged, so the scan itself never raises.
ScanRaises(folder) == FALSE

\* Lines 276-289: log_content after the walk over the files.
RECURSIVE ScanFiles(_, _)
ScanFiles(files, buf) ==
    IF files = << >> THEN buf
    ELSE ScanFiles(Tail(files), AppendFile(buf, Head(files)))

\* Variant: the exception of the upload is logged and not raised again.
WriteLogsRaisesNever(outcome, folder) == FALSE

\* Lines 316-318: the call raises when the scan or the upload raised.
WriteLogsRaises(outcome, folder) ==
    outcome = "upload_error" \/ ScanRaises(folder)

\* No text was collected ("nothing", log_content.tell() = 0), or the bundle
\* is uploaded, or the upload raises.
WriteLogsOutcomes == {"nothing", "uploaded", "upload_error"}

\* One try of the task.
WriteLogs(outcome) ==
    /\ state["write_logs_task"] = "running"
    /\ LET log_content == ScanFiles(logFolder, << >>)
           upload == ~ScanRaises(logFolder) /\ Len(log_content) > 0
       IN  /\ outcome = "nothing" <=> ~upload
           /\ uploadAttempts' = IF upload THEN uploadAttempts + 1 ELSE uploadAttempts
           /\ s3Objects' = IF outcome = "uploaded"
                           THEN Append(s3Objects, log_content) ELSE s3Objects
    /\ uploads' = IF outcome = "uploaded" THEN uploads + 1 ELSE uploads
    /\ IF WriteLogsRaises(outcome, logFolder)
       THEN MarkFailure("write_logs_task")
       ELSE MarkSuccess("write_logs_task")
    /\ UNCHANGED << tries, xcom, jenkinsVars, checkVars, ec2Vars, remoteCmds >>
    /\ UNCHANGED << buildVars, ipTarget, sshVars, logFolder, reportVars >>

(* ---------------------------------------------------------------------- *)
(* fd-reporting-ml-training.py: the reporting DAG                          *)
(* ---------------------------------------------------------------------- *)

pipelineVars ==
    << state, tries, xcom, jenkinsVars, checkVars, ec2Vars, remoteCmds, uploads,
       buildVars, ipTarget, sshVars, logVars >>

ReportMarkSuccess(t) == rstate' = [rstate EXCEPT ![t] = "success"]

ReportMarkFailure(t) ==
    rstate' = [rstate EXCEPT ![t] =
                  IF rtries[t] <= ReportRetries THEN "up_for_retry" ELSE "failed"]

\* The scheduler starts a try of a task whose upstream tasks all succeeded.
ReportStartTask(t) ==
    /\ rstate[t] \in {"none", "up_for_retry"}
    /\ \A u \in ReportUpstream(t) : rstate[u] = "success"
    /\ rstate' = [rstate EXCEPT ![t] = "running"]
    /\ rtries' = [rtries EXCEPT ![t] = @ + 1]
    /\ IF t = "generate_and_upload_report"
       THEN status_code' = 0 /\ printed' = "none"
       ELSE UNCHANGED << status_code, printed >>
    /\ UNCHANGED << localFile, posted, pipelineVars >>

ReportMarkUpstreamFailed(t) ==
    /\ rstate[t] = "none"
    /\ \E u \in ReportUpstream(t) : rstate[u] \in {"failed", "upstream_failed"}
    /\ rstate' = [rstate EXCEPT ![t] = "upstream_failed"]
    /\ UNCHANGED << rtries, localFile, posted, status_code, printed, pipelineVars >>

\* download_data_from_s3 (lines 75-94): the file is fetched or the hook raises.
DownloadData(ok, rows) ==
    /\ rstate["download_data_from_s3"] = "running"
    /\ IF ok
       THEN localFile' = rows /\ ReportMarkSuccess("download_data_from_s3")
       ELSE UNCHANGED localFile /\ ReportMarkFailure("download_data_from_s3")
    /\ UNCHANGED << rtries, posted, status_code, printed, pipelineVars >>

\* What a call meets: read_csv raises, requests.post raises, or the service
\* answers with a status code.
ReportOutcomes ==
    { [kind |-> k, code |-> 0] : k \in {"read_csv_error", "post_error"} }
        \cup { [kind |-> "response", code |-> c] : c \in ReportCodes }

\* Variant: the response is checked with raise_for_status.
ReportRaisesOnStatus(outcome) == outcome.code # 200

\* generate_and_upload_report raises when read_csv or requests.post raises;
\* the status code of a response is only compared and printed.
ReportRaises(outcome) == outcome.kind \in {"read_csv_error", "post_error"}

ReportMessage(outcome) ==
    CASE ReportRaises(outcome) -> "error"
      [] outcome.code = 200    -> "sent"
      [] OTHER                 -> "failed_status"

\* generate_and_upload_report (lines 97-122).
GenerateReport(outcome) ==
    /\ rstate["generate_and_upload_report"] = "running"
    /\ posted' = IF outcome.kind = "response" THEN Append(posted, localFile) ELSE posted
    /\ status_code' = outcome.code
    /\ printed' = ReportMessage(outcome)
    /\ IF ReportRaises(outcome)
       THEN ReportMarkFailure("generate_and_upload_report")
       ELSE ReportMarkSuccess("generate_and_upload_report")
    /\ UNCHANGED << rtries, localFile, pipelineVars >>

ReportNext ==
    \/ \E t \in ReportTasks : ReportStartTask(t)
    \/ \E t \in ReportTasks : ReportMarkUpstreamFailed(t)
    \/ \E ok \in BOOLEAN, rows \in 0..MaxRows : DownloadData(ok, rows)
    \/ \E outcome \in ReportOutcomes : GenerateReport(outcome)

(* ---------------------------------------------------------------------- *)
(* Specification                                                           *)
(* ---------------------------------------------------------------------- *)

Next ==
    \/ \E t \in Tasks : StartTask(t)
    \/ \E t \in Tasks : MarkUpstreamFailed(t)
    \/ \E code \in {200, 503} : GetLatestBuild(code)
    \/ \E r \in BuildResponses : PollBuild(r)
    \/ \E outcome \in CreateOutcomes : CreateInstance(outcome)
    \/ \E response \in StatusResponses : PollStatus(response)
    \/ PollStatusRaises
    \/ \E ok \in BOOLEAN : GetPublicIp(ok)
    \/ \E outcome \in TrainingOutcomes : RunTraining(outcome)
    \/ TerminateRenderFails
    \/ \E outcome \in TerminateOutcomes : TerminateInstance(outcome)
    \/ \E outcome \in WriteLogsOutcomes : WriteLogs(outcome)

\* The run of the DAG; the log folder holds one file written today.
Init ==
    /\ InitRun
    /\ logFolder = << [name |-> 1, mtime |-> "today", status |-> "ok"] >>

Spec == Init /\ [][Next]_vars

\* The scheduler and the workers keep running: a step that can be taken is
\* eventually taken.  Nothing is assumed about what the services answer.
FairSpec == Spec /\ WF_vars(Next)

\* A run of the reporting DAG.
ReportSpec == Init /\ [][ReportNext]_vars

\* poll_jenkins_job alone, against a CI job that starts new builds.
JenkinsNext ==
    \/ StartTask("jenkins_poll")
    \/ \E code \in {200, 503} : GetLatestBuild(code)
    \/ \E r \in BuildResponses : PollBuild(r)
    \/ NewBuildStarts

JenkinsSpec == Init /\ [][JenkinsNext]_vars

\* write_logs_s3 alone: the run has come through every earlier task at the
\* first try, and the log folder is any folder.
LogsInit ==
    /\ state = [t \in Tasks |-> IF t = "write_logs_task" THEN "none" ELSE "success"]
    /\ tries = [t \in Tasks |-> IF t = "write_logs_task" THEN 0 ELSE 1]
    /\ xcom = [t \in {"jenkins_poll", "create_ec2_instance", "check_ec2_instance",
                      "ec2_public_ip"} |->
                 CASE t = "create_ec2_instance" -> << NewInstanceId(0) >>
                   [] t = "ec2_public_ip"       -> PublicIpOf(NewInstanceId(0))
                   [] OTHER                     -> TRUE]
    /\ jenkinsPc = "return_true"
    /\ jenkinsLatest = 200
    /\ jenkinsReqs = 1
    /\ jenkinsResps = << [code |-> 200, building |-> FALSE, result |-> "SUCCESS"] >>
    /\ jenkinsReturns = 1
    /\ checkPc = "return_true"
    /\ passed_checks = TRUE
    /\ checkReqs = 1
    /\ checkResps = << << [SystemStatus |-> "ok", InstanceStatus |-> "ok"] >> >>
    /\ checkTarget = << NewInstanceId(0) >>
    /\ launched = {NewInstanceId(0)}
    /\ terminated = {NewInstanceId(0)}
    /\ terminateCalls = << NewInstanceId(0) >>
    /\ remoteCmds = 1
    /\ uploads = 0
    /\ lastBuild = 1
    /\ latest_build_number = 1
    /\ buildTargets = {1}
    /\ ipTarget = NewInstanceId(0)
    /\ sshLog = << "connect", "exec_command", "read_output", "close" >>
    /\ exitStatus = 0
    /\ s3Objects = << >>
    /\ uploadAttempts = 0
    /\ logFolder \in LogFolders
    /\ rstate = [t \in ReportTasks |-> "none"]
    /\ rtries = [t \in ReportTasks |-> 0]
    /\ localFile = -1
    /\ posted = << >>
    /\ status_code = 0
    /\ printed = "none"

LogsNext ==
    \/ StartTask("write_logs_task")
    \/ \E outcome \in WriteLogsOutcomes : WriteLogs(outcome)

LogsSpec == LogsInit /\ [][LogsNext]_vars

TypeOK ==
    /\ state \in [Tasks -> TIStates]
    /\ tries \in [Tasks -> 0..(Retries + 1)]
    /\ DOMAIN xcom \subseteq Tasks
    /\ jenkinsPc \in {"idle", "get_latest", "poll_build", "return_true",
                      "raise_build_failed", "raise_transport"}
    /\ jenkinsLatest \in {0, 200, 503}
    /\ jenkinsReqs \in 0..MaxPolls
    /\ Len(jenkinsResps) <= MaxPolls
    /\ checkPc \in {"idle", "poll", "return_true", "raise"}
    /\ passed_checks \in BOOLEAN
    /\ checkReqs \in 0..MaxPolls
    /\ Len(checkResps) <= MaxPolls
    /\ terminated \subseteq launched
    /\ Len(terminateCalls) <= Retries + 1
    /\ remoteCmds \in 0..(Retries + 1)
    /\ uploads \in 0..1
    /\ lastBuild >= 1
    /\ latest_build_number \in 0..lastBuild
    /\ buildTargets \subseteq 1..lastBuild
    /\ ipTarget \in {""} \cup launched
    /\ \A i \in 1..Len(sshLog) :
          sshLog[i] \in {"connect", "connect_failed", "exec_command", "exec_failed",
                         "read_output", "read_failed", "close"}
    /\ exitStatus \in {-1, 0, 1}
    /\ logFolder \in LogFolders
    /\ uploads = Len(s3Objects)
    /\ uploadAttempts \in Len(s3Objects)..(Retries + 1)
    /\ rstate \in [ReportTasks -> TIStates]
    /\ rtries \in [ReportTasks -> 0..(ReportRetries + 1)]
    /\ localFile \in -1..MaxRows
    /\ posted \in Seq(0..MaxRows) /\ Len(posted) <= ReportRetries + 1
    /\ status_code \in {0} \cup ReportCodes
    /\ printed \in {"none", "sent", "failed_status", "error"}

(* ---------------------------------------------------------------------- *)
(* Properties                                                              *)
(* ---------------------------------------------------------------------- *)

\* The run in which creation and the health check succeeded and the
\* remote-execution step failed for good.
TrainingFailedAfterProvisioning ==
    /\ state["create_ec2_instance"] = "success"
    /\ state["check_ec2_instance"] = "success"
    /\ state["ssh_training_task"] = "failed"

\* C1 as stated: when creation and the health check succeeded and remote
\* execution failed, the finished terminate step has issued exactly one
\* termination call.
C1_TerminateIssuedExactlyOnce ==
    (TrainingFailedAfterProvisioning /\ state["terminate_instance"] \in Finished)
        => Len(terminateCalls) = 1

\* C1 as amended: in that run the terminate step is not skipped (it can start
\* as soon as remote execution has failed), each of its tries issues one
\* termination call for the created instance, so it issues exactly one call
\* when its first try succeeds and one more, at most 1 + retries in all,
\* when a try of the terminate step itself fails.
C1_TerminateAfterTrainingFailure ==
    TrainingFailedAfterProvisioning =>
        /\ state["terminate_instance"] # "upstream_failed"
        /\ state["terminate_instance"] = "none" => ENABLED StartTask("terminate_instance")
        /\ state["terminate_instance"] \in Finished =>
              /\ Len(terminateCalls) >= 1
              /\ Len(terminateCalls) <= Retries + 1
              /\ Len(terminateCalls) = tries["terminate_instance"]
              /\ \A i \in 1..Len(terminateCalls) :
                     terminateCalls[i] = xcom["create_ec2_instance"][1]
        /\ (state["terminate_instance"] = "success" /\ tries["terminate_instance"] = 1)
              => Len(terminateCalls) = 1

C1_Witness ==
    /\ TrainingFailedAfterProvisioning
    /\ state["terminate_instance"] = "success"
    /\ terminateCalls = << xcom["create_ec2_instance"][1] >>
    /\ terminated = launched

\* C2 as stated (its resource-leak half): every instance that was created
\* is eventually terminated, whatever the other steps do.
C2_CreatedEventuallyTerminated ==
    \A n \in 1..Len(InstanceIdPool) :
        [](InstanceIdPool[n] \in launched => <>(InstanceIdPool[n] \in terminated))

\* C3: no termination call is issued unless the create step returned an
\* instance id, and every call that is issued names the id it returned; a
\* failed or never-run create step leaves the run without termination calls.
C3_TerminateOnlyCreatedInstance ==
    /\ \A i \in 1..Len(terminateCalls) :
          /\ XComPushed("create_ec2_instance")
          /\ state["create_ec2_instance"] = "success"
          /\ terminateCalls[i] = xcom["create_ec2_instance"][1]
          /\ terminateCalls[i] \in launched
    /\ state["create_ec2_instance"] \in {"failed", "upstream_failed"}
          => terminateCalls = << >>

C3_Witness ==
    /\ state["create_ec2_instance"] = "failed"
    /\ launched # {}
    /\ state["terminate_instance"] = "failed"
    /\ tries["terminate_instance"] = Retries + 1
    /\ terminateCalls = << >>

\* A task has been started at least once in this run.
Started(t) == tries[t] > 0

\* C4: after a failed job poll the create step is never started, and after a
\* failed job poll or a failed creation the health check, the address
\* resolution and the remote execution are never started.
C4_FailurePropagation ==
    /\ state["jenkins_poll"] \in {"failed", "up_for_retry"}
          => ~Started("create_ec2_instance")
    /\ state["jenkins_poll"] = "failed"
          => state["create_ec2_instance"] \in {"none", "upstream_failed"}
    /\ (state["jenkins_poll"] = "failed" \/ state["create_ec2_instance"] = "failed")
          => \A t \in {"check_ec2_instance", "ec2_public_ip", "ssh_training_task"} :
                 /\ ~Started(t)
                 /\ state[t] \in {"none", "upstream_failed"}
                 /\ remoteCmds = 0

C4_Witness ==
    /\ state["jenkins_poll"] = "failed"
    /\ state["create_ec2_instance"] = "upstream_failed"
    /\ state["check_ec2_instance"] = "upstream_failed"
    /\ state["ec2_public_ip"] = "upstream_failed"
    /\ state["ssh_training_task"] = "upstream_failed"
    /\ state["write_logs_task"] \in Finished

\* C5: a step is started only after its predecessor in the order job-poll,
\* create, health-check, address-resolution, remote-execution, terminate,
\* log-shipment has finished, and every step but terminate only after its
\* predecessor has succeeded; once a step has started, every earlier step
\* has finished or can no longer start.
C5_StrictSequentialOrder ==
    \A i \in 2..Len(TaskOrder) :
        Started(TaskOrder[i]) =>
            /\ state[TaskOrder[i - 1]] \in Finished
            /\ TaskOrder[i] # "terminate_instance"
                  => state[TaskOrder[i - 1]] = "success"
            /\ \A j \in 1..(i - 1) :
                  \/ state[TaskOrder[j]] \in Finished
                  \/ state[TaskOrder[j]] = "none" /\ TriggerRuleFailed(TaskOrder[j])

C5_Witness ==
    /\ \A t \in Tasks : state[t] = "success"
    /\ \A t \in Tasks : tries[t] = 1

\* C6 as stated: no step is executed a second time, so at most one instance
\* is created and at most one remote command is executed per run.
C6_NoStepReexecuted ==
    /\ \A t \in Tasks : tries[t] <= 1
    /\ Cardinality(launched) <= 1
    /\ remoteCmds <= 1

\* What the counters of a run satisfy under retries = 1.
RetryBudget ==
    /\ \A t \in Tasks :
          /\ tries[t] <= Retries + 1
          /\ state[t] = "up_for_retry" => tries[t] \in 1..Retries
          /\ state[t] = "failed" => tries[t] = Retries + 1
    /\ Cardinality(launched) <= tries["create_ec2_instance"]
    /\ remoteCmds <= tries["ssh_training_task"]
    /\ ((\A t \in Tasks : tries[t] <= 1) /\ state["ssh_training_task"] = "success")
          => (Cardinality(launched) = 1 /\ remoteCmds = 1)

\* A try is started only for a step that has not run yet or whose last try
\* failed, and a finished step keeps its outcome.
RetryOnlyAfterFailure ==
    \A t \in Tasks :
        /\ tries'[t] # tries[t] =>
              /\ tries'[t] = tries[t] + 1
              /\ state[t] \in {"none", "up_for_retry"}
              /\ state[t] = "none" <=> tries[t] = 0
        /\ state[t] \in Finished => state'[t] = state[t]

\* C6 as amended: every step is tried at most 1 + retries = 2 times, the
\* second time only after its first try failed and never after it succeeded
\* or failed for good; so at most two instances are created and at most two
\* remote commands executed per run, and exactly one of each when no try
\* fails up to the end of remote execution.
C6_AtMostOneRetryPerStep == []RetryBudget /\ [][RetryOnlyAfterFailure]_vars

C6_Witness ==
    /\ Cardinality(launched) = 2
    /\ remoteCmds = 2
    /\ tries["ssh_training_task"] = 2

\* Kinds of build-status response.
IsBuilding(r) == r.code = 200 /\ r.building
IsSuccess(r) == r.code = 200 /\ ~r.building /\ r.result = "SUCCESS"
IsBuildFailure(r) == r.code = 200 /\ ~r.building /\ r.result # "SUCCESS"
LastOf(resps) == resps[Len(resps)]

\* C7: poll_jenkins_job has returned True exactly when the responses it
\* consumed are 'building' ones followed by one that is finished with
\* result SUCCESS; it returns on that response, once, and has issued one
\* status request per response consumed.
C7_PollReturnsOnFirstSuccess ==
    /\ jenkinsPc = "return_true" <=>
          (jenkinsResps # << >> /\ IsSuccess(LastOf(jenkinsResps)))
    /\ jenkinsPc = "return_true" =>
          /\ \A i \in 1..(Len(jenkinsResps) - 1) : IsBuilding(jenkinsResps[i])
          /\ jenkinsReturns = 1
          /\ state["jenkins_poll"] = "success"
    /\ jenkinsReturns = (IF jenkinsPc = "return_true" THEN 1 ELSE 0)
    /\ jenkinsReqs = Len(jenkinsResps)
    /\ (jenkinsResps # << >> /\ IsBuilding(LastOf(jenkinsResps)))
          => jenkinsPc = "poll_build"

C7_Witness ==
    /\ jenkinsPc = "return_true"
    /\ Len(jenkinsResps) = MaxPolls
    /\ IsBuilding(jenkinsResps[1])
    /\ jenkinsReqs = MaxPolls
    /\ jenkinsReturns = 1

\* Within one call, a raised exception ends the requests of the call.
NoRequestAfterRaise ==
    (jenkinsPc \in {"raise_build_failed", "raise_transport"} /\ jenkinsPc' = jenkinsPc)
        => (jenkinsReqs' = jenkinsReqs /\ jenkinsResps' = jenkinsResps
            /\ jenkinsLatest' = jenkinsLatest)

\* C8: a response that is finished with a result other than SUCCESS makes
\* the call raise on that response (the try fails), and the call issues no
\* request after it.
C8_PollFailsOnFailedBuild ==
    /\ [](jenkinsPc = "raise_build_failed" <=>
             (jenkinsResps # << >> /\ IsBuildFailure(LastOf(jenkinsResps))))
    /\ [](jenkinsPc = "raise_build_failed" =>
             /\ state["jenkins_poll"] \in {"up_for_retry", "failed"}
             /\ jenkinsReqs = Len(jenkinsResps)
             /\ \A i \in 1..(Len(jenkinsResps) - 1) : IsBuilding(jenkinsResps[i]))
    /\ [][NoRequestAfterRaise]_vars

C8_Witness ==
    /\ jenkinsPc = "raise_build_failed"
    /\ Len(jenkinsResps) >= 2
    /\ LastOf(jenkinsResps).result = "FAILURE"
    /\ state["jenkins_poll"] = "failed"

\* C9: a non-200 response, to the latest-build request or to a build-status
\* request, makes the call raise at once, without another request, and
\* nothing else raises a transport error; a 200 'building' response never
\* fails the call, which goes on to the next status request however many
\* such responses it has had.
C9_TransportErrorsAndStillBuilding ==
    /\ [](jenkinsLatest \notin {0, 200} =>
             (jenkinsPc = "raise_transport" /\ jenkinsReqs = 0))
    /\ []((jenkinsResps # << >> /\ LastOf(jenkinsResps).code # 200) =>
             jenkinsPc = "raise_transport")
    /\ [](jenkinsPc = "raise_transport" =>
             /\ state["jenkins_poll"] \in {"up_for_retry", "failed"}
             /\ \/ jenkinsLatest \notin {0, 200}
                \/ jenkinsResps # << >> /\ LastOf(jenkinsResps).code # 200)
    /\ []((jenkinsResps # << >> /\ IsBuilding(LastOf(jenkinsResps))) =>
             /\ jenkinsPc = "poll_build"
             /\ state["jenkins_poll"] = "running"
             /\ ENABLED PollBuild(Non200))
    /\ [][NoRequestAfterRaise]_vars

C9_Witness ==
    /\ jenkinsPc = "poll_build"
    /\ jenkinsReqs = MaxPolls
    /\ \A i \in 1..Len(jenkinsResps) : IsBuilding(jenkinsResps[i])
    /\ tries["jenkins_poll"] = 2

\* A poll that reports both sub-checks 'ok'.
BothOk(response) ==
    /\ response # << >>
    /\ response[1].SystemStatus = "ok"
    /\ response[1].InstanceStatus = "ok"

\* A response that is consumed and is not 'ok'/'ok' (an empty status list
\* included) leaves the call polling: it neither returns nor raises.
NotOkKeepsPolling ==
    (checkResps' # checkResps /\ checkResps' # << >> /\ ~BothOk(LastOf(checkResps')))
        => (checkPc' = "poll" /\ state'["check_ec2_instance"] = "running"
            /\ ~passed_checks')

\* C10: check_ec2_status has returned True exactly when a poll reported both
\* sub-checks 'ok'; that poll is the last one of the call and the first
\* such poll; after polls that are all empty or not 'ok'/'ok' the call has
\* not returned, and an empty status list does not raise.
C10_HealthCheckReturnsOnFirstOk ==
    /\ [](checkPc = "return_true" <=>
             \E i \in 1..Len(checkResps) : BothOk(checkResps[i]))
    /\ [](checkPc = "return_true" =>
             /\ BothOk(LastOf(checkResps))
             /\ \A i \in 1..(Len(checkResps) - 1) : ~BothOk(checkResps[i])
             /\ passed_checks
             /\ state["check_ec2_instance"] = "success")
    /\ [](checkPc # "raise" => checkReqs = Len(checkResps))
    /\ [](passed_checks <=> checkPc = "return_true")
    /\ [][NotOkKeepsPolling]_vars

C10_Witness ==
    /\ checkPc = "return_true"
    /\ Len(checkResps) = MaxPolls
    /\ checkResps[1] = << >>
    /\ state["check_ec2_instance"] = "success"

\* The current call of run_training_via_paramiko has ended.
TrainingCallEnded ==
    tries["ssh_training_task"] > 0 /\ state["ssh_training_task"] # "running"

\* C11 as stated: a call in which connecting, authenticating or executing
\* the command failed, or in which the remote command itself failed, ends in
\* failure: the step is successful only when the command ran and exited
\* with status zero.
C11_TrainingFailureFailsStep ==
    state["ssh_training_task"] = "success" =>
        /\ sshLog = << "connect", "exec_command", "read_output", "close" >>
        /\ exitStatus = 0

\* Sessions open after the events of log: those opened by a connect that no
\* later close has closed.
OpenSessions(log) ==
    Cardinality({ i \in 1..Len(log) :
                    /\ log[i] = "connect"
                    /\ \A k \in (i + 1)..Len(log) : log[k] # "close" })

\* Sessions opened by the events of log.
SessionsOpened(log) == Cardinality({ i \in 1..Len(log) : log[i] = "connect" })

\* C12: a call opens at most one SSH session, works on nothing but an open
\* session, and has closed the session it opened when it ends, however it
\* ends.
C12_SessionClosedOnEveryPath ==
    /\ SessionsOpened(sshLog) <= 1
    /\ \A i \in 1..Len(sshLog) :
          /\ OpenSessions(SubSeq(sshLog, 1, i)) <= 1
          /\ sshLog[i] \in {"exec_command", "exec_failed", "read_output", "read_failed"}
                => OpenSessions(SubSeq(sshLog, 1, i)) = 1
    /\ TrainingCallEnded => OpenSessions(sshLog) = 0
    /\ (TrainingCallEnded /\ SessionsOpened(sshLog) = 1)
          => sshLog[Len(sshLog)] = "close"

C12_Witness ==
    /\ state["ssh_training_task"] = "failed"
    /\ sshLog = << "connect", "exec_command", "read_failed", "close" >>
    /\ remoteCmds = 2

\* The files of a folder that were modified today, in scan order.
TodayFiles(folder) == SelectSeq(folder, LAMBDA f : f.mtime = "today")
AllReadable(folder) == \A i \in 1..Len(folder) : folder[i].status = "ok"

\* The header line of a file, its text, and the blank lines closing it.
FileBlock(name) == HeaderOf(name) \o ContentOf(name) \o BlankLines

\* The blocks of the given files, one after the other.
RECURSIVE Blocks(_)
Blocks(files) ==
    IF files = << >> THEN << >> ELSE FileBlock(Head(files).name) \o Blocks(Tail(files))

\* sub occurs in seq as a run of consecutive elements.
Contains(seq, sub) ==
    \E k \in 0..(Len(seq) - Len(sub)) : SubSeq(seq, k + 1, k + Len(sub)) = sub

\* C13: when every log file is readable, write_logs_s3 stores at most one
\* object, exactly one once it has succeeded with some file dated today; the
\* object is the headers and texts of exactly the files dated today, in scan
\* order; with no file dated today it calls no upload and succeeds.
C13_BundleIsTodaysFiles ==
    AllReadable(logFolder) =>
        /\ Len(s3Objects) <= 1
        /\ \A k \in 1..Len(s3Objects) : s3Objects[k] = Blocks(TodayFiles(logFolder))
        /\ (state["write_logs_task"] = "success" /\ TodayFiles(logFolder) # << >>)
              => Len(s3Objects) = 1
        /\ TodayFiles(logFolder) = << >> =>
              /\ uploadAttempts = 0
              /\ s3Objects = << >>
              /\ state["write_logs_task"] \in {"none", "running", "success"}

C13_Witness ==
    /\ AllReadable(logFolder)
    /\ Len(logFolder) = 3
    /\ Len(TodayFiles(logFolder)) = 2
    /\ logFolder[2].mtime = "yesterday"
    /\ state["write_logs_task"] = "success"
    /\ s3Objects = << FileBlock(logFolder[1].name) \o FileBlock(logFolder[3].name) >>

\* Positions of the files dated today that cannot be read.
UnreadableToday(folder) ==
    { i \in 1..Len(folder) : folder[i].mtime = "today" /\ folder[i].status # "ok" }

\* C14: with exactly one unreadable file among those dated today, wherever
\* it lies in the scan, a call fails only when its upload fails, and every
\* object stored holds the header and the text of each readable file dated
\* today; a successful call with such a file has stored one object.
C14_UnreadableFileIsSkipped ==
    Cardinality(UnreadableToday(logFolder)) = 1 =>
        /\ state["write_logs_task"] \in {"up_for_retry", "failed"}
              => uploadAttempts > Len(s3Objects)
        /\ \A k \in 1..Len(s3Objects) : \A i \in 1..Len(logFolder) :
              (logFolder[i].mtime = "today" /\ logFolder[i].status = "ok")
                 => Contains(s3Objects[k], FileBlock(logFolder[i].name))
        /\ (state["write_logs_task"] = "success"
               /\ \E i \in 1..Len(logFolder) :
                     logFolder[i].mtime = "today" /\ logFolder[i].status = "ok")
              => Len(s3Objects) = 1

C14_Witness ==
    /\ Len(logFolder) = 3
    /\ \A i \in 1..3 : logFolder[i].mtime = "today"
    /\ logFolder[1].status = "ok"
    /\ logFolder[2].status = "read_error"
    /\ logFolder[3].status = "ok"
    /\ state["write_logs_task"] = "success"
    /\ Len(s3Objects) = 1
    /\ Contains(s3Objects[1], FileBlock(logFolder[3].name))

\* An upload that raised fails the try of write_logs_task and changes nothing
\* else of the run.
UploadFailureFailsOnlyLogs ==
    (uploadAttempts' > uploadAttempts /\ Len(s3Objects') = Len(s3Objects)) =>
        /\ state'["write_logs_task"] \in {"up_for_retry", "failed"}
        /\ \A t \in Tasks \ {"write_logs_task"} : state'[t] = state[t]
        /\ tries' = tries
        /\ UNCHANGED << xcom, ec2Vars, sshVars, remoteCmds >>

\* C15: a failed upload makes the call of write_logs_s3 end in failure, and
\* leaves the outcome of every other step as it was; the step has failed for
\* good exactly when the uploads of all its tries failed.
C15_UploadFailureIsFatalToLogsOnly ==
    /\ [][UploadFailureFailsOnlyLogs]_vars
    /\ [](state["write_logs_task"] \in {"up_for_retry", "failed"}
             => uploadAttempts > Len(s3Objects))
    /\ [](state["write_logs_task"] = "failed"
             => (uploadAttempts = Retries + 1 /\ s3Objects = << >>))
    /\ [](Started("write_logs_task") => state["terminate_instance"] = "success")

C15_Witness ==
    /\ state["ssh_training_task"] = "success"
    /\ state["terminate_instance"] = "success"
    /\ state["write_logs_task"] = "failed"
    /\ uploadAttempts = 2
    /\ s3Objects = << >>

\* C16 as stated: every header in a stored object is followed by the text of
\* the file it names, and when files are dated today and none of them can
\* be read, no upload is performed.
C16_SkippedFileLeavesNothing ==
    /\ \A k \in 1..Len(s3Objects) : \A q \in 1..Len(s3Objects[k]) :
          s3Objects[k][q].kind = "header" =>
              LET block == FileBlock(s3Objects[k][q].file)
              IN  /\ q + Len(block) - 1 <= Len(s3Objects[k])
                  /\ SubSeq(s3Objects[k], q, q + Len(block) - 1) = block
    /\ (TodayFiles(logFolder) # << >>
           /\ Cardinality(UnreadableToday(logFolder)) = Len(TodayFiles(logFolder)))
          => (uploadAttempts = 0 /\ s3Objects = << >>)

\* C17: the build number is read once per call, from the answer to the
\* first request, and every status request of the call names that build,
\* whatever builds the CI job has started since.
C17_PollsTheLatchedBuild ==
    /\ [](jenkinsPc \in {"poll_build", "return_true", "raise_build_failed"}
             => latest_build_number \in 1..lastBuild)
    /\ [](buildTargets \subseteq {latest_build_number})
    /\ [](jenkinsReqs > 0 => buildTargets = {latest_build_number})
    /\ [][latest_build_number' # latest_build_number =>
             \/ jenkinsPc = "get_latest" /\ latest_build_number' = lastBuild
             \/ jenkinsPc' = "get_latest" /\ latest_build_number' = 0]_vars
    /\ [][jenkinsPc = "poll_build" => latest_build_number' = latest_build_number]_vars

C17_Witness ==
    /\ jenkinsPc = "return_true"
    /\ latest_build_number = 1
    /\ lastBuild = MaxBuilds
    /\ buildTargets = {1}
    /\ jenkinsReqs = MaxPolls

\* The instance is created by a try of create_ec2_instance and terminated
\* by a try of terminate_instance, by no other step.
InstanceFrame ==
    /\ launched' # launched =>
          (state["create_ec2_instance"] = "running"
              /\ state'["create_ec2_instance"] # "running")
    /\ terminated' # terminated =>
          (state["terminate_instance"] = "running"
              /\ state'["terminate_instance"] # "running")

\* C18: only the create and terminate steps change which instances exist
\* and which are terminated, and the health check, the address resolution
\* and the termination all name the instance id the create step returned.
C18_LifecycleFrame ==
    /\ [][InstanceFrame]_vars
    /\ [](checkTarget # << >> => checkTarget = xcom["create_ec2_instance"])
    /\ [](ipTarget # "" => ipTarget = xcom["create_ec2_instance"][1])
    /\ [](\A i \in 1..Len(terminateCalls) :
              terminateCalls[i] = xcom["create_ec2_instance"][1])
    /\ [](terminated \subseteq
              (IF XComPushed("create_ec2_instance")
               THEN {xcom["create_ec2_instance"][1]} ELSE {}))
    /\ [](XComPushed("create_ec2_instance") =>
              xcom["create_ec2_instance"] = << NewInstanceId(Cardinality(launched) - 1) >>)

C18_Witness ==
    /\ Cardinality(launched) = 2
    /\ checkTarget = << NewInstanceId(1) >>
    /\ ipTarget = NewInstanceId(1)
    /\ terminateCalls = << NewInstanceId(1) >>
    /\ terminated = {NewInstanceId(1)}
    /\ state["write_logs_task"] = "success"

\* C19: write_logs_task is started only after terminate_instance succeeded,
\* it can start as soon as that is so, whatever the outcome of the steps
\* before, and it is never started, and nothing is uploaded, while
\* terminate_instance has not succeeded or after it failed.
C19_LogsAfterSuccessfulTerminate ==
    /\ Started("write_logs_task") => state["terminate_instance"] = "success"
    /\ (state["terminate_instance"] = "success" /\ state["write_logs_task"] = "none")
          => ENABLED StartTask("write_logs_task")
    /\ state["terminate_instance"] = "success"
          => state["write_logs_task"] # "upstream_failed"
    /\ state["terminate_instance"] # "success" =>
          /\ ~Started("write_logs_task")
          /\ uploadAttempts = 0
          /\ ~ENABLED StartTask("write_logs_task")
    /\ state["terminate_instance"] = "failed"
          => state["write_logs_task"] \in {"none", "upstream_failed"}

C19_Witness ==
    /\ state["ssh_training_task"] = "failed"
    /\ state["terminate_instance"] = "success"
    /\ state["write_logs_task"] = "success"
    /\ Len(s3Objects) = 1

ReportStarted(t) == rstate[t] # "none" /\ rstate[t] # "upstream_failed"

\* C20: generate_and_upload_report is started only after
\* download_data_from_s3 succeeded; a try of it ends in failure only when an
\* exception was raised, and a response whose status is not 200 is printed
\* and the try ends in success.
C20_ReportFailsOnlyOnException ==
    /\ ReportStarted("generate_and_upload_report")
          => (rstate["download_data_from_s3"] = "success" /\ localFile >= 0)
    /\ rstate["generate_and_upload_report"] \in {"up_for_retry", "failed"}
          => (printed = "error" /\ status_code = 0)
    /\ status_code # 0 =>
          /\ rstate["generate_and_upload_report"] = "success"
          /\ printed = (IF status_code = 200 THEN "sent" ELSE "failed_status")
          /\ posted # << >> /\ posted[Len(posted)] = localFile

C20_Witness ==
    /\ rstate["generate_and_upload_report"] = "success"
    /\ rtries["generate_and_upload_report"] = 1
    /\ status_code = 500
    /\ printed = "failed_status"

====
